---- MODULE Spec2Model ----
(***************************************************************************)
(* kvlite: a hash map stored in one file (src/src/hashmap.rs) with the     *)
(* record codec of src/src/file.rs.  The file is shared by processes that  *)
(* call get, insert and remove; every system call on the file is one step. *)
(* A record write or read of the file is taken as atomic.                  *)
(***************************************************************************)
EXTENDS Integers, Sequences, FiniteSets, TLC

(***************************************************************************)
(* Bounds of the model.                                                    *)
(***************************************************************************)
NumProcs == 2          \* processes sharing the file
MaxCalls == 3          \* calls made in one behaviour, over all processes
MaxSeqCalls == 5       \* calls made in one sequential behaviour (SpecSeq)
MaxKeyCount == 2       \* bucket counts 1..MaxKeyCount; stands for DEFAULT_KEY_COUNT
MaxFail == 1           \* failing system calls in one behaviour (SpecIO)
MaxIOCalls == 2        \* calls made in one behaviour with failing system calls (SpecIO)
MaxFairCalls == 2      \* calls made in one behaviour under fair scheduling (SpecChainFair)

(***************************************************************************)
(* Program constants.                                                      *)
(***************************************************************************)
ITEM_SIZE == 1284
HEADER_SIZE == 16
KEY_SIZE == 256        \* bytes [0, 256) of a record hold the key
VAL_SIZE == 1024       \* bytes [256, 1280) of a record hold the value
HALF == 65536          \* 2^16: a u32 is kept as two 16-bit halves, hi * 2^16 + lo
DEFAULT_KEY_COUNT == MaxKeyCount

Procs == 1 .. NumProcs
NoProc == 0            \* the flock is held by no one

\* Keys and values are strings, modelled as sequences of bytes.
k1 == <<1>>
k2 == <<2>>
k3 == <<3>>
NonEmptyKeys == {k1, k2, k3}
Keys == NonEmptyKeys \cup {<<>>}
Vals == {<<7>>, <<8>>}

(***************************************************************************)
(* file.rs: Header                                                         *)
(***************************************************************************)
\* u32 -> [u8; 4], as mem::transmute lays it out (little endian)
u32_bytes(n) == [i \in 0 .. 3 |-> (n \div (256 ^ i)) % 256]

bytes_u32(b, off) == b[off] + 256 * b[off + 1] + 65536 * b[off + 2] + 16777216 * b[off + 3]

Header_as_bytes(h) ==
    LET version == u32_bytes(h.version)
        key_count == u32_bytes(h.key_count)
        val_size == u32_bytes(h.val_size)
        heap_size == u32_bytes(h.heap_size)
    IN [i \in 0 .. HEADER_SIZE - 1 |->
            IF i <= 3 THEN version[i]
            ELSE IF i <= 7 THEN key_count[i - 4]
            ELSE IF i <= 11 THEN val_size[i - 8]
            ELSE heap_size[i - 12]]

\* a decoder that takes key_count and heap_size from each other's bytes
Header_from_swapped(b) ==
    [version |-> bytes_u32(b, 0), key_count |-> bytes_u32(b, 12),
     val_size |-> bytes_u32(b, 8), heap_size |-> bytes_u32(b, 4)]

Header_from(b) ==
    [version |-> bytes_u32(b, 0), key_count |-> bytes_u32(b, 4),
     val_size |-> bytes_u32(b, 8), heap_size |-> bytes_u32(b, 12)]

\* an inc_heap that counts two records
inc_heap_twice(h) == [h EXCEPT !.heap_size = h.heap_size + 2]

\* an inc_heap that leaves heap_size as it is
inc_heap_not(h) == h

\* self.heap_size += 1 (the model's heap never comes near the u32 range)
inc_heap(h) == [h EXCEPT !.heap_size = h.heap_size + 1]

\* what a read of the header yields on a file that holds no header yet:
\* file.read returns Ok(0) and the buffer keeps its zeros
ZeroHeader == Header_from([i \in 0 .. HEADER_SIZE - 1 |-> 0])

(***************************************************************************)
(* file.rs: Item                                                           *)
(***************************************************************************)
Item_new(key, value) == [key |-> key, value |-> value, next |-> 0]

Item_empty == [key |-> <<>>, value |-> <<>>, next |-> 0]

\* a scan that takes the whole field
find_no_null_byte(b, off, len) == len

\* first i in [0, len) with b[off + i] = 0, or len
find_null_byte(b, off, len) ==
    IF \E i \in 0 .. len - 1 : b[off + i] = 0
    THEN CHOOSE i \in 0 .. len - 1 :
            b[off + i] = 0 /\ \A j \in 0 .. i - 1 : b[off + j] # 0
    ELSE len

Item_as_bytes(it) ==
    LET next == u32_bytes(it.next)
    IN [i \in 0 .. ITEM_SIZE - 1 |->
            IF i < KEY_SIZE
            THEN (IF i < Len(it.key) THEN it.key[i + 1] ELSE 0)
            ELSE IF i < KEY_SIZE + VAL_SIZE
            THEN (IF i - KEY_SIZE < Len(it.value) THEN it.value[i - KEY_SIZE + 1] ELSE 0)
            ELSE next[i - (KEY_SIZE + VAL_SIZE)]]

\* U+FFFD REPLACEMENT CHARACTER in UTF-8
REPLACEMENT == <<239, 191, 189>>

\* what String::from_utf8_lossy makes of the byte b[i], for strings of code
\* points below U+0800: a byte below 0x80 is a character, a lead byte
\* 0xC2..0xDF and the continuation byte 0x80..0xBF that follows it are a
\* character, any other byte is replaced by U+FFFD
lossy_byte(b, i) ==
    IF b[i] < 128 THEN <<b[i]>>
    ELSE IF b[i] \in 194 .. 223 /\ i < Len(b) /\ b[i + 1] \in 128 .. 191 THEN <<b[i]>>
    ELSE IF b[i] \in 128 .. 191 /\ i > 1 /\ b[i - 1] \in 194 .. 223 THEN <<b[i]>>
    ELSE REPLACEMENT

RECURSIVE lossy(_, _, _)
\* from_utf8_lossy of the bytes b[lo .. hi]
lossy(b, lo, hi) ==
    IF lo > hi THEN <<>>
    ELSE IF lo = hi THEN lossy_byte(b, lo)
    ELSE LET mid == (lo + hi) \div 2
         IN lossy(b, lo, mid) \o lossy(b, mid + 1, hi)

from_utf8_lossy(b) == lossy(b, 1, Len(b))

Item_from(b) ==
    LET key_len == find_null_byte(b, 0, KEY_SIZE)
        value_len == find_null_byte(b, KEY_SIZE, VAL_SIZE)
    IN [key |-> from_utf8_lossy([i \in 1 .. key_len |-> b[i - 1]]),
        value |-> from_utf8_lossy([i \in 1 .. value_len |-> b[KEY_SIZE + i - 1]]),
        next |-> bytes_u32(b, KEY_SIZE + VAL_SIZE)]

is_empty(it) == it.key = <<>> /\ it.value = <<>> /\ it.next = 0

is_key(it, key) == it.key = key

\* get_next: None is modelled as 0
get_next(it) == it.next

with_next(it, next) == [key |-> it.key, value |-> it.value, next |-> next]

\* the record a reader decodes after `it` was encoded and written
Stored(it) == Item_from(Item_as_bytes(it))

(***************************************************************************)
(* hashmap.rs: hash                                                        *)
(***************************************************************************)
\* u32 arithmetic, wrapping modulo 2^32, on [hi, lo] with value hi * 2^16 + lo
u32(hi, lo) == [hi |-> hi % HALF, lo |-> lo % HALF]

add32(x, y) == u32(x.hi + y.hi + ((x.lo + y.lo) \div HALF), x.lo + y.lo)

sub32(x, y) ==
    LET borrow == IF x.lo < y.lo THEN 1 ELSE 0
    IN u32(x.hi - y.hi - borrow + HALF, x.lo - y.lo + HALF)

\* x << 6
shl6(x) == u32(x.hi * 64 + ((x.lo * 64) \div HALF), x.lo * 64)

\* x << 16
shl16(x) == u32(x.lo, 0)

\* x % n for 1 <= n < 2^15
rem32(x, n) == (((x.hi % n) * (HALF % n)) + (x.lo % n)) % n

RECURSIVE hash_total(_, _, _)
\* total = *b as u32 + (total << 6) + (total << 16) - total, over the bytes of s
hash_total(s, i, total) ==
    IF i > Len(s) THEN total
    ELSE hash_total(s, i + 1,
            sub32(add32(add32(u32(0, s[i]), shl6(total)), shl16(total)), total))

\* x + y is above the u32 range
add_overflows(x, y) == x.hi + y.hi + ((x.lo + y.lo) \div HALF) >= HALF

\* x - y is below 0
sub_overflows(x, y) == x.hi < y.hi \/ (x.hi = y.hi /\ x.lo < y.lo)

RECURSIVE hash_overflows(_, _, _)
\* one of the + and - of the loop leaves the u32 range: a build with overflow
\* checks (the dev and test profiles) panics there, a build without them wraps
hash_overflows(s, i, total) ==
    IF i > Len(s) THEN FALSE
    ELSE LET b == u32(0, s[i])
             sum1 == add32(b, shl6(total))
             sum2 == add32(sum1, shl16(total))
         IN \/ add_overflows(b, shl6(total))
            \/ add_overflows(sum1, shl16(total))
            \/ sub_overflows(sum2, total)
            \/ hash_overflows(s, i + 1, sub32(sum2, total))

\* called only with key_count > 0: the remainder by zero panics
hash(s, key_count) == rem32(hash_total(s, 1, u32(0, 0)), key_count)

(***************************************************************************)
(* State.                                                                  *)
(* The file: fexists, its size in bytes, the header it holds and the       *)
(* records written so far (a slot never written reads as zero bytes).      *)
(* lock: the holder of the exclusive flock.  proc[p]: the call process p   *)
(* is executing and its local variables.                                   *)
(* History variables: calls (number of calls made), fails (failed system   *)
(* calls), abs (key -> value after the inserts and removes that have       *)
(* returned Ok, in return order), distinctInserts (every call so far was   *)
(* an insert of a key no earlier call inserted), rival (rival[q]: while q  *)
(* held its snapshot of a slot, another writer holding the same snapshot   *)
(* of that slot reported Committed).                                       *)
(* pure: the function of the codec or the hash that is being applied on    *)
(* its own (SpecPure), its arguments and its result.                       *)
(***************************************************************************)
VARIABLES fexists, fsize, fheader, fslots, lock, proc, calls, fails, abs,
          distinctInserts, rival, pure

vars == <<fexists, fsize, fheader, fslots, lock, proc, calls, fails, abs,
          distinctInserts, rival, pure>>

fileVars == <<fexists, fsize, fheader, fslots>>

histVars == <<calls, fails, abs, distinctInserts, rival>>

None == "None"

\* Result values: Ok(v) (Ok(()) is Ok(<<>>)), Err(Error::NotFound), Err(Error::IO)
Ok(v) == [kind |-> "Ok", value |-> v]

Err(e) == [kind |-> e, value |-> <<>>]

NoResult == [kind |-> None, value |-> <<>>]

\* abs[k]: no value, or the value v
Absent == [present |-> FALSE, value |-> <<>>]

Present(v) == [present |-> TRUE, value |-> v]

Max(a, b) == IF a >= b THEN a ELSE b

\* the bytes a read at a slot that was never written returns are zeros
ZeroItem == Item_from([i \in 0 .. ITEM_SIZE - 1 |-> 0])

\* read_item: the record decoded at slot pos
read_item(slots, pos) == IF pos \in DOMAIN slots THEN slots[pos] ELSE ZeroItem

\* seek_from(pos) + write of one record: the slots and the size afterwards
write_slot(slots, pos, it) ==
    [s \in DOMAIN slots \cup {pos} |-> IF s = pos THEN Stored(it) ELSE slots[s]]

size_after(size, pos) == Max(size, HEADER_SIZE + (pos + 1) * ITEM_SIZE)

\* no function is applied on its own
NoPure ==
    [fn |-> None, done |-> FALSE, item |-> Item_empty, out_item |-> Item_empty,
     s |-> <<>>, n |-> 1, checks |-> FALSE, bucket |-> 0, panic |-> FALSE,
     h |-> ZeroHeader, out_h |-> ZeroHeader]

\* the process between two calls
Idle ==
    [pc |-> "idle", op |-> None, key |-> <<>>, val |-> <<>>, created |-> FALSE,
     i |-> 0, header |-> ZeroHeader, pos |-> 0, item |-> Item_empty,
     confirm |-> Item_empty, wheader |-> ZeroHeader, fn |-> None, failed |-> FALSE,
     ret |-> None, result |-> NoResult]

\* the Header init_file_once(key_count) builds
init_header(key_count) ==
    [version |-> 0, key_count |-> key_count, val_size |-> ITEM_SIZE, heap_size |-> 0]

\* the file a completed init_file_once(n) leaves
InitializedFile(n) ==
    /\ fexists = TRUE
    /\ fsize = HEADER_SIZE + n * ITEM_SIZE
    /\ fheader = Header_from(Header_as_bytes(init_header(n)))
    /\ fslots = [s \in 0 .. n - 1 |-> ZeroItem]

AbsentFile ==
    /\ fexists = FALSE
    /\ fsize = 0
    /\ fheader = ZeroHeader
    /\ fslots = <<>>

\* FileHashMap::new stores the path only: the file is absent, or was created
\* before by init_file_once(n) (as test_filemap does with n = 1)
Init ==
    /\ AbsentFile \/ \E n \in 1 .. MaxKeyCount : InitializedFile(n)
    /\ lock = NoProc
    /\ proc = [p \in Procs |-> Idle]
    /\ calls = 0
    /\ fails = 0
    /\ abs = [k \in Keys |-> Absent]
    /\ distinctInserts = TRUE
    /\ rival = [p \in Procs |-> FALSE]
    /\ pure = NoPure

(***************************************************************************)
(* A call: get(key), insert(key, val) or remove(key).                      *)
(***************************************************************************)
DoCall(p, limit) ==
    /\ proc[p].pc = "idle"
    /\ calls < limit
    /\ \E op \in {"get", "insert", "remove"}, key \in Keys, val \in Vals :
          /\ op # "insert" => val = <<7>>
          /\ proc' = [proc EXCEPT ![p] = [Idle EXCEPT !.pc = "init_file_once",
                                          !.op = op, !.key = key, !.val = val]]
          /\ distinctInserts' =
                (/\ distinctInserts
                 /\ op = "insert"
                 /\ ~abs[key].present
                 /\ \A q \in Procs : proc[q].pc # "idle" => proc[q].key # key)
    /\ calls' = calls + 1
    /\ UNCHANGED <<fileVars, lock, fails, abs, rival, pure>>

Call(p) == DoCall(p, MaxCalls)

(***************************************************************************)
(* init_file_once(DEFAULT_KEY_COUNT)                                       *)
(***************************************************************************)
\* an init_file_once that writes its header into the file that exists
InitExistsRewritesHeader(p) ==
    /\ proc[p].pc = "init_file_once"
    /\ fexists
    /\ fheader' = Header_from(Header_as_bytes(init_header(DEFAULT_KEY_COUNT)))
    /\ proc' = [proc EXCEPT ![p].pc = "read_header"]
    /\ UNCHANGED <<fexists, fsize, fslots, lock, histVars, pure>>

\* create_new fails because the file exists: return Ok
InitExists(p) ==
    /\ proc[p].pc = "init_file_once"
    /\ fexists
    /\ proc' = [proc EXCEPT ![p].pc = "read_header"]
    /\ UNCHANGED <<fileVars, lock, histVars, pure>>

\* create_new creates the file, empty
InitCreate(p) ==
    /\ proc[p].pc = "init_file_once"
    /\ ~fexists
    /\ fexists' = TRUE
    /\ proc' = [proc EXCEPT ![p].pc = "init_header", ![p].created = TRUE]
    /\ UNCHANGED <<fsize, fheader, fslots, lock, histVars, pure>>

\* file.write(header.as_bytes())
InitWriteHeader(p) ==
    /\ proc[p].pc = "init_header"
    /\ fheader' = Header_from(Header_as_bytes(init_header(DEFAULT_KEY_COUNT)))
    /\ fsize' = Max(fsize, HEADER_SIZE)
    /\ proc' = [proc EXCEPT ![p].pc = "init_body", ![p].i = 0]
    /\ UNCHANGED <<fexists, fslots, lock, histVars, pure>>

\* one round of the loop that writes the body: a record of zeros at the
\* creating handle's own offset
InitWriteBody(p) ==
    /\ proc[p].pc = "init_body"
    /\ fslots' = [s \in DOMAIN fslots \cup {proc[p].i} |->
                    IF s = proc[p].i THEN ZeroItem ELSE fslots[s]]
    /\ fsize' = size_after(fsize, proc[p].i)
    /\ proc' = [proc EXCEPT ![p].i = @ + 1,
                            ![p].pc = IF proc[p].i + 1 < DEFAULT_KEY_COUNT
                                      THEN "init_body" ELSE "read_header"]
    /\ UNCHANGED <<fexists, fheader, lock, histVars, pure>>

(***************************************************************************)
(* open_file, read_header and hash, the common start of get, insert and    *)
(* remove.  A header with key_count = 0 makes hash panic.                  *)
(***************************************************************************)
ReadHeader(p) ==
    /\ proc[p].pc = "read_header"
    /\ proc' = [proc EXCEPT
                  ![p].header = fheader,
                  ![p].pos = IF fheader.key_count = 0 THEN 0
                             ELSE hash(proc[p].key, fheader.key_count),
                  ![p].pc = IF fheader.key_count = 0 THEN "panic" ELSE "loop"]
    /\ UNCHANGED <<fileVars, lock, histVars, pure>>

\* the call returns `result`; its File is dropped, which releases a flock
\* the call still holds
Returned(p, result) ==
    [Idle EXCEPT !.pc = "done", !.op = proc[p].op, !.key = proc[p].key,
                 !.val = proc[p].val, !.created = proc[p].created,
                 !.failed = proc[p].failed, !.result = result]

ReleasedLock(p) == IF lock = p THEN NoProc ELSE lock

\* a get that reads only while no one holds the lock
get_under_lock(p) ==
    /\ proc[p].pc = "loop"
    /\ proc[p].op = "get"
    /\ lock = NoProc
    /\ LET item == read_item(fslots, proc[p].pos)
       IN proc' = [proc EXCEPT ![p] =
                IF is_key(item, proc[p].key)
                THEN Returned(p, Ok(item.value))
                ELSE IF get_next(item) # 0
                THEN [proc[p] EXCEPT !.item = item, !.pos = get_next(item)]
                ELSE Returned(p, Err("NotFound"))]
    /\ UNCHANGED <<fileVars, lock, histVars, pure>>

(***************************************************************************)
(* get: one round of the loop                                              *)
(***************************************************************************)
get(p) ==
    /\ proc[p].pc = "loop"
    /\ proc[p].op = "get"
    /\ LET item == read_item(fslots, proc[p].pos)
       IN proc' = [proc EXCEPT ![p] =
                IF is_key(item, proc[p].key)
                THEN Returned(p, Ok(item.value))
                ELSE IF get_next(item) # 0
                THEN [proc[p] EXCEPT !.item = item, !.pos = get_next(item)]
                ELSE Returned(p, Err("NotFound"))]
    /\ UNCHANGED <<fileVars, lock, histVars, pure>>

\* an insert that does not look for a record of its key
insert_without_update(p) ==
    /\ proc[p].pc = "loop"
    /\ proc[p].op = "insert"
    /\ LET item == read_item(fslots, proc[p].pos)
       IN proc' = [proc EXCEPT ![p] =
                IF is_empty(item)
                THEN [proc[p] EXCEPT !.item = item, !.pc = "write_item"]
                ELSE IF get_next(item) # 0
                THEN [proc[p] EXCEPT !.item = item, !.pos = get_next(item)]
                ELSE [proc[p] EXCEPT !.item = item, !.pc = "write_new_item_to_heap"]]
    /\ UNCHANGED <<fileVars, lock, histVars, pure>>

(***************************************************************************)
(* insert: one round of the loop.  The slot read is empty or holds the key *)
(* (write_item), continues the chain, or ends it (write_new_item_to_heap). *)
(***************************************************************************)
insert(p) ==
    /\ proc[p].pc = "loop"
    /\ proc[p].op = "insert"
    /\ LET item == read_item(fslots, proc[p].pos)
       IN proc' = [proc EXCEPT ![p] =
                IF is_empty(item) \/ is_key(item, proc[p].key)
                THEN [proc[p] EXCEPT !.item = item, !.pc = "write_item"]
                ELSE IF get_next(item) # 0
                THEN [proc[p] EXCEPT !.item = item, !.pos = get_next(item)]
                ELSE [proc[p] EXCEPT !.item = item, !.pc = "write_new_item_to_heap"]]
    /\ UNCHANGED <<fileVars, lock, histVars, pure>>

(***************************************************************************)
(* remove: one round of the loop                                           *)
(***************************************************************************)
remove(p) ==
    /\ proc[p].pc = "loop"
    /\ proc[p].op = "remove"
    /\ LET item == read_item(fslots, proc[p].pos)
       IN proc' = [proc EXCEPT ![p] =
                IF is_key(item, proc[p].key)
                THEN [proc[p] EXCEPT !.item = item, !.pc = "write_item"]
                ELSE IF get_next(item) # 0
                THEN [proc[p] EXCEPT !.item = item, !.pos = get_next(item)]
                ELSE Returned(p, Err("NotFound"))]
    /\ UNCHANGED <<fileVars, lock, histVars, pure>>

\* q is in the write protocol, or about to enter it, with the record `item`
\* it read at slot `pos` as the expected record
HoldsSnapshot(q) ==
    proc[q].pc \in {"write_item", "write_item_confirm", "write_item_write",
                    "write_new_item_to_heap", "write_heap_header", "write_heap_new",
                    "write_heap_confirm", "write_heap_prev", "write_heap_inc"}

\* rival, when p reports Committed
RivalsOf(p) ==
    [q \in DOMAIN rival |->
        \/ rival[q]
        \/ /\ q # p
           /\ HoldsSnapshot(q)
           /\ proc[q].pos = proc[p].pos
           /\ proc[q].item = proc[p].item]

\* new_item of the call: Item::new(key, val) in insert, Item::empty() in remove
new_item(p) ==
    IF proc[p].op = "insert" THEN Item_new(proc[p].key, proc[p].val) ELSE Item_empty

(***************************************************************************)
(* write_item(file, pos, prev_item = item, new_item)                       *)
(***************************************************************************)
\* flock(fd, LockExclusive) blocks until no one holds the lock
write_item_lock(p) ==
    /\ proc[p].pc = "write_item"
    /\ lock = NoProc
    /\ lock' = p
    /\ proc' = [proc EXCEPT ![p].pc = "write_item_confirm", ![p].fn = "write_item"]
    /\ UNCHANGED <<fileVars, histVars, pure>>

\* a comparison that looks at the key only
same_key(prev_item_confirm, prev_item) == prev_item_confirm.key = prev_item.key

\* !(prev_item_confirm != *prev_item): PartialEq on key, value and next
unchanged(prev_item_confirm, prev_item) == prev_item_confirm = prev_item

\* a write_item that writes the record before it compares
write_item_confirm_after_write(p) ==
    /\ proc[p].pc = "write_item_confirm"
    /\ LET prev_item_confirm == read_item(fslots, proc[p].pos)
       IN /\ fslots' = write_slot(fslots, proc[p].pos,
                                  with_next(new_item(p), get_next(proc[p].item)))
          /\ fsize' = size_after(fsize, proc[p].pos)
          /\ lock' = NoProc
          /\ proc' = [proc EXCEPT ![p].confirm = prev_item_confirm,
                                  ![p].ret = IF unchanged(prev_item_confirm, proc[p].item)
                                             THEN "Committed" ELSE "Conflict",
                                  ![p].pc = "written"]
    /\ UNCHANGED <<fexists, fheader, histVars, pure>>

\* re-read the slot; unlock and return Ok(false) if it changed
write_item_confirm(p) ==
    /\ proc[p].pc = "write_item_confirm"
    /\ LET prev_item_confirm == read_item(fslots, proc[p].pos)
       IN IF ~unchanged(prev_item_confirm, proc[p].item)
          THEN /\ lock' = NoProc
               /\ proc' = [proc EXCEPT ![p].confirm = prev_item_confirm,
                                       ![p].ret = "Conflict", ![p].pc = "written"]
          ELSE /\ lock' = lock
               /\ proc' = [proc EXCEPT ![p].confirm = prev_item_confirm,
                                       ![p].pc = "write_item_write"]
    /\ UNCHANGED <<fileVars, histVars, pure>>

\* a write_item that drops the link of the record it replaces
write_item_record_unlinked(new, prev) == with_next(new, 0)

\* the record write_item writes: new_item.with_next(prev_item.next)
write_item_record(new, prev) == with_next(new, get_next(prev))

\* write the record at pos, unlock, return Ok(true)
write_item_write(p) ==
    /\ proc[p].pc = "write_item_write"
    /\ fslots' = write_slot(fslots, proc[p].pos,
                            write_item_record(new_item(p), proc[p].item))
    /\ fsize' = size_after(fsize, proc[p].pos)
    /\ lock' = NoProc
    /\ proc' = [proc EXCEPT ![p].ret = "Committed", ![p].pc = "written"]
    /\ rival' = RivalsOf(p)
    /\ UNCHANGED <<fexists, fheader, calls, fails, abs, distinctInserts, pure>>

(***************************************************************************)
(* write_new_item_to_heap(file, prev_pos = pos, prev_item = item, new_item)*)
(***************************************************************************)
write_heap_lock(p) ==
    /\ proc[p].pc = "write_new_item_to_heap"
    /\ lock = NoProc
    /\ lock' = p
    /\ proc' = [proc EXCEPT ![p].pc = "write_heap_header",
                            ![p].fn = "write_new_item_to_heap"]
    /\ UNCHANGED <<fileVars, histVars, pure>>

\* read_header under the lock
write_heap_header(p) ==
    /\ proc[p].pc = "write_heap_header"
    /\ proc' = [proc EXCEPT ![p].wheader = fheader, ![p].pc = "write_heap_new"]
    /\ UNCHANGED <<fileVars, lock, histVars, pure>>

\* a position one record behind the end of the heap
new_pos_behind(p) == proc[p].wheader.key_count + proc[p].wheader.heap_size + 1

new_pos(p) == proc[p].wheader.key_count + proc[p].wheader.heap_size

\* write new_item at new_pos
write_heap_new(p) ==
    /\ proc[p].pc = "write_heap_new"
    /\ fslots' = write_slot(fslots, new_pos(p), new_item(p))
    /\ fsize' = size_after(fsize, new_pos(p))
    /\ proc' = [proc EXCEPT ![p].pc = "write_heap_confirm"]
    /\ UNCHANGED <<fexists, fheader, lock, histVars, pure>>

\* re-read the predecessor; unlock and return Ok(false) if it changed
write_heap_confirm(p) ==
    /\ proc[p].pc = "write_heap_confirm"
    /\ LET prev_item_confirm == read_item(fslots, proc[p].pos)
       IN IF ~unchanged(prev_item_confirm, proc[p].item)
          THEN /\ lock' = NoProc
               /\ proc' = [proc EXCEPT ![p].confirm = prev_item_confirm,
                                       ![p].ret = "Conflict", ![p].pc = "written"]
          ELSE /\ lock' = lock
               /\ proc' = [proc EXCEPT ![p].confirm = prev_item_confirm,
                                       ![p].pc = "write_heap_prev"]
    /\ UNCHANGED <<fileVars, histVars, pure>>

\* a write of the linked predecessor at the offset of the new record
write_heap_prev_at_new_pos(p) ==
    /\ proc[p].pc = "write_heap_prev"
    /\ fslots' = write_slot(fslots, new_pos(p), with_next(proc[p].item, new_pos(p)))
    /\ fsize' = size_after(fsize, new_pos(p))
    /\ proc' = [proc EXCEPT ![p].pc = "write_heap_inc"]
    /\ UNCHANGED <<fexists, fheader, lock, histVars, pure>>

\* write prev_item.with_next(new_pos) at prev_pos
write_heap_prev(p) ==
    /\ proc[p].pc = "write_heap_prev"
    /\ fslots' = write_slot(fslots, proc[p].pos, with_next(proc[p].item, new_pos(p)))
    /\ fsize' = size_after(fsize, proc[p].pos)
    /\ proc' = [proc EXCEPT ![p].pc = "write_heap_inc"]
    /\ UNCHANGED <<fexists, fheader, lock, histVars, pure>>

\* header.inc_heap(), write_header, unlock, return Ok(true)
write_heap_inc(p) ==
    /\ proc[p].pc = "write_heap_inc"
    /\ fheader' = Header_from(Header_as_bytes(inc_heap(proc[p].wheader)))
    /\ fsize' = Max(fsize, HEADER_SIZE)
    /\ lock' = NoProc
    /\ proc' = [proc EXCEPT ![p].ret = "Committed", ![p].pc = "written"]
    /\ rival' = RivalsOf(p)
    /\ UNCHANGED <<fexists, fslots, calls, fails, abs, distinctInserts, pure>>

(***************************************************************************)
(* insert and remove after the write protocol returned:                    *)
(*   if let Ok(ok) = ... { if !ok { continue; } }  return Ok(());          *)
(* `continue` re-enters the loop with pos as it is.                        *)
(***************************************************************************)
retry(p) ==
    /\ proc[p].pc = "written"
    /\ proc[p].ret = "Conflict"
    /\ proc' = [proc EXCEPT ![p].pc = "loop", ![p].ret = None, ![p].fn = None,
                            ![p].confirm = Item_empty, ![p].wheader = ZeroHeader]
    /\ rival' = [rival EXCEPT ![p] = FALSE]
    /\ UNCHANGED <<fileVars, lock, calls, fails, abs, distinctInserts, pure>>

return_ok(p) ==
    /\ proc[p].pc = "written"
    /\ proc[p].ret # "Conflict"
    /\ proc' = [proc EXCEPT ![p] = Returned(p, Ok(<<>>))]
    /\ lock' = ReleasedLock(p)
    /\ abs' = [abs EXCEPT ![proc[p].key] =
                 IF proc[p].op = "insert" THEN Present(proc[p].val) ELSE Absent]
    /\ rival' = [rival EXCEPT ![p] = FALSE]
    /\ UNCHANGED <<fileVars, calls, fails, distinctInserts, pure>>

\* the caller has the result; the process is ready for its next call
Finish(p) ==
    /\ proc[p].pc = "done"
    /\ proc' = [proc EXCEPT ![p] = Idle]
    /\ UNCHANGED <<fileVars, lock, histVars, pure>>

Step(p) ==
    \/ InitExists(p) \/ InitCreate(p) \/ InitWriteHeader(p) \/ InitWriteBody(p)
    \/ ReadHeader(p)
    \/ get(p) \/ insert(p) \/ remove(p)
    \/ write_item_lock(p) \/ write_item_confirm(p) \/ write_item_write(p)
    \/ write_heap_lock(p) \/ write_heap_header(p) \/ write_heap_new(p)
    \/ write_heap_confirm(p) \/ write_heap_prev(p) \/ write_heap_inc(p)
    \/ retry(p) \/ return_ok(p) \/ Finish(p)

Next == \E p \in Procs : Call(p) \/ Step(p)

Spec == Init /\ [][Next]_vars

(***************************************************************************)
(* SpecSeq: a sequential history, the calls of one process one after the   *)
(* other.  A conflict needs a second writer, so retry has no part in it    *)
(* (SeqNoConflict).                                                        *)
(***************************************************************************)
SeqStep(p) ==
    \/ InitExists(p) \/ InitCreate(p) \/ InitWriteHeader(p) \/ InitWriteBody(p)
    \/ ReadHeader(p)
    \/ get(p) \/ insert(p) \/ remove(p)
    \/ write_item_lock(p) \/ write_item_confirm(p) \/ write_item_write(p)
    \/ write_heap_lock(p) \/ write_heap_header(p) \/ write_heap_new(p)
    \/ write_heap_confirm(p) \/ write_heap_prev(p) \/ write_heap_inc(p)
    \/ return_ok(p) \/ Finish(p)

NextSeq == DoCall(1, MaxSeqCalls) \/ SeqStep(1)

SpecSeq == Init /\ [][NextSeq]_vars

SeqNoConflict == proc[1].ret # "Conflict"

(***************************************************************************)
(* SpecIO: system calls may fail.  A failed seek, read or write makes the  *)
(* function return Err(Error::IO); a failed flock makes unwrap() panic.    *)
(***************************************************************************)
Fails(p) ==
    /\ fails < MaxFail
    /\ fails' = fails + 1

\* init_file_once: file.write fails, return Err(Error::IO); the call returns it
FailInitWrite(p) ==
    /\ proc[p].pc \in {"init_header", "init_body"}
    /\ Fails(p)
    /\ proc' = [proc EXCEPT ![p] = Returned(p, Err("IO")), ![p].failed = TRUE]
    /\ UNCHANGED <<fileVars, lock, calls, abs, distinctInserts, rival, pure>>

\* read_header fails: get, insert and remove return the error
FailReadHeader(p) ==
    /\ proc[p].pc = "read_header"
    /\ Fails(p)
    /\ proc' = [proc EXCEPT ![p] = Returned(p, Err("IO")), ![p].failed = TRUE]
    /\ UNCHANGED <<fileVars, lock, calls, abs, distinctInserts, rival, pure>>

\* read_item in the loop fails: get, insert and remove return the error
FailReadItem(p) ==
    /\ proc[p].pc = "loop"
    /\ Fails(p)
    /\ proc' = [proc EXCEPT ![p] = Returned(p, Err("IO")), ![p].failed = TRUE]
    /\ UNCHANGED <<fileVars, lock, calls, abs, distinctInserts, rival, pure>>

\* flock(fd, LockExclusive).unwrap() panics
FailLock(p) ==
    /\ proc[p].pc \in {"write_item", "write_new_item_to_heap"}
    /\ Fails(p)
    /\ proc' = [proc EXCEPT ![p].pc = "panic", ![p].failed = TRUE]
    /\ UNCHANGED <<fileVars, lock, calls, abs, distinctInserts, rival, pure>>

\* a read under the lock fails: return Err(why), the lock is not released
FailReadLocked(p) ==
    /\ proc[p].pc \in {"write_item_confirm", "write_heap_header", "write_heap_confirm"}
    /\ Fails(p)
    /\ proc' = [proc EXCEPT ![p].pc = "written", ![p].ret = "IO", ![p].failed = TRUE,
                            ![p].fn = IF proc[p].pc = "write_item_confirm"
                                      THEN "write_item" ELSE "write_new_item_to_heap"]
    /\ UNCHANGED <<fileVars, lock, calls, abs, distinctInserts, rival, pure>>

\* a seek or write under the lock fails: unlock, return Err(Error::IO)
FailWriteLocked(p) ==
    /\ proc[p].pc \in {"write_item_write", "write_heap_new", "write_heap_prev",
                       "write_heap_inc"}
    /\ Fails(p)
    /\ lock' = NoProc
    /\ proc' = [proc EXCEPT ![p].pc = "written", ![p].ret = "IO", ![p].failed = TRUE]
    /\ UNCHANGED <<fileVars, calls, abs, distinctInserts, rival, pure>>

Fail(p) ==
    \/ FailInitWrite(p) \/ FailReadHeader(p) \/ FailReadItem(p)
    \/ FailLock(p) \/ FailReadLocked(p) \/ FailWriteLocked(p)

NextIO == \E p \in Procs : DoCall(p, MaxIOCalls) \/ Step(p) \/ Fail(p)

SpecIO == Init /\ [][NextIO]_vars

(***************************************************************************)
(* SpecPure: the codec and the hash applied on their own to arguments      *)
(* drawn from the sets below.                                              *)
(***************************************************************************)
Rep(byte, n) == [i \in 1 .. n |-> byte]

\* "foo", "bar", "a\0b", "\0a", U+00E9, and strings around the field sizes;
\* the last ones end in U+00E9, whose two bytes lie across the end of the field
ItemKeys ==
    {<<>>, <<102, 111, 111>>, <<97, 0, 98>>, <<0, 97>>, <<195, 169>>,
     Rep(97, KEY_SIZE), Rep(97, 300), Rep(97, KEY_SIZE - 1) \o <<195, 169>>}

ItemVals ==
    {<<>>, <<98, 97, 114>>, <<98, 0, 99>>, Rep(98, VAL_SIZE), Rep(98, VAL_SIZE + 1),
     Rep(98, VAL_SIZE - 1) \o <<195, 169>>}

ItemNexts == {0, 1, 258, 2147483647}

InitProgram ==
    /\ AbsentFile
    /\ lock = NoProc
    /\ proc = [p \in Procs |-> Idle]
    /\ calls = 0
    /\ fails = 0
    /\ abs = [k \in Keys |-> Absent]
    /\ distinctInserts = TRUE
    /\ rival = [p \in Procs |-> FALSE]

ItemInputs ==
    {[NoPure EXCEPT !.fn = "Item", !.item = [key |-> k, value |-> v, next |-> x]] :
        k \in ItemKeys, v \in ItemVals, x \in ItemNexts}

\* Item::from(item.as_bytes())
ItemRoundTrip ==
    /\ pure.fn = "Item"
    /\ ~pure.done
    /\ pure' = [pure EXCEPT !.done = TRUE,
                            !.out_item = Item_from(Item_as_bytes(pure.item))]
    /\ UNCHANGED <<fileVars, lock, proc, histVars>>

\* "", "foo", "bar" (test_hash), "\x01", "zzzz", "aaaa", "hello"
HashKeys ==
    {<<>>, <<102, 111, 111>>, <<98, 97, 114>>, <<1>>, <<122, 122, 122, 122>>,
     <<97, 97, 97, 97>>, <<104, 101, 108, 108, 111>>}

HashCounts == {1, 2, 3, 256}

HashInputs ==
    {[NoPure EXCEPT !.fn = "hash", !.s = k, !.n = n] : k \in HashKeys, n \in HashCounts}

\* FileHashMap::hash(s, n), in a build with or without overflow checks
HashCall ==
    /\ pure.fn = "hash"
    /\ ~pure.done
    /\ \E checks \in BOOLEAN :
          LET panics == checks /\ hash_overflows(pure.s, 1, u32(0, 0))
          IN pure' = [pure EXCEPT !.done = TRUE, !.checks = checks, !.panic = panics,
                                  !.bucket = IF panics THEN 0 ELSE hash(pure.s, pure.n)]
    /\ UNCHANGED <<fileVars, lock, proc, histVars>>

U32Samples == {0, 1, 1284, 16777216, 2147483647}

HeaderInputs ==
    {[NoPure EXCEPT !.fn = "Header",
                    !.h = [version |-> a, key_count |-> b, val_size |-> c, heap_size |-> d]] :
        a \in U32Samples, b \in U32Samples, c \in U32Samples, d \in U32Samples}

\* Header::from(h.as_bytes())
HeaderRoundTrip ==
    /\ pure.fn = "Header"
    /\ ~pure.done
    /\ pure' = [pure EXCEPT !.done = TRUE, !.out_h = Header_from(Header_as_bytes(pure.h))]
    /\ UNCHANGED <<fileVars, lock, proc, histVars>>

InitPure == InitProgram /\ pure \in ItemInputs \cup HashInputs \cup HeaderInputs

NextPure == ItemRoundTrip \/ HashCall \/ HeaderRoundTrip

SpecPure == InitPure /\ [][NextPure]_vars

(***************************************************************************)
(* SpecChain: the calls of Spec on a file that holds a chain: the file      *)
(* init_file_once(1) created, after insert(k1, v) and insert(k2, v) have    *)
(* returned (ChainedFileReached: SpecSeq reaches it).                       *)
(***************************************************************************)
ChainedFile ==
    /\ fexists = TRUE
    /\ fsize = HEADER_SIZE + 2 * ITEM_SIZE
    /\ fheader = Header_from(Header_as_bytes([init_header(1) EXCEPT !.heap_size = 1]))
    /\ fslots = [s \in 0 .. 1 |->
                    IF s = 0 THEN Stored(with_next(Item_new(k1, <<7>>), 1))
                    ELSE Stored(Item_new(k2, <<7>>))]

InitChain ==
    /\ ChainedFile
    /\ lock = NoProc
    /\ proc = [p \in Procs |-> Idle]
    /\ calls = 0
    /\ fails = 0
    /\ abs = [k \in Keys |-> IF k \in {k1, k2} THEN Present(<<7>>) ELSE Absent]
    /\ distinctInserts = FALSE
    /\ rival = [p \in Procs |-> FALSE]
    /\ pure = NoPure

\* the steps of a call on a file that exists: create_new fails in every
\* init_file_once
StepExisting(p) ==
    \/ InitExists(p)
    \/ ReadHeader(p)
    \/ get(p) \/ insert(p) \/ remove(p)
    \/ write_item_lock(p) \/ write_item_confirm(p) \/ write_item_write(p)
    \/ write_heap_lock(p) \/ write_heap_header(p) \/ write_heap_new(p)
    \/ write_heap_confirm(p) \/ write_heap_prev(p) \/ write_heap_inc(p)
    \/ retry(p) \/ return_ok(p) \/ Finish(p)

NextChain == \E p \in Procs : Call(p) \/ StepExisting(p)

SpecChain == InitChain /\ [][NextChain]_vars

ChainedFileReached ==
    /\ ChainedFile
    /\ proc[1].pc = "idle"
    /\ abs = [k \in Keys |-> IF k \in {k1, k2} THEN Present(<<7>>) ELSE Absent]

TypeOK ==
    /\ fexists \in BOOLEAN
    /\ lock \in Procs \cup {NoProc}
    /\ calls \in 0 .. MaxSeqCalls
    /\ fails \in 0 .. MaxFail

(***************************************************************************)
(* C1: in a sequential history, get(k) of a non-empty key returns the      *)
(* value of the most recent insert(k, v) not followed by a remove(k), and  *)
(* NotFound otherwise, for every bucket count.                             *)
(***************************************************************************)
C1_GetReturnsLastInsert ==
    \A p \in Procs :
        (proc[p].pc = "done" /\ proc[p].op = "get" /\ proc[p].key \in NonEmptyKeys)
        => proc[p].result = (IF abs[proc[p].key].present
                             THEN Ok(abs[proc[p].key].value) ELSE Err("NotFound"))

\* one chain (key_count = 1) with a tombstone in the middle, and a get that
\* returned the value of a key stored behind the tombstone
C1_Witness ==
    /\ fheader.key_count = 1
    /\ proc[1].pc = "done" /\ proc[1].op = "get" /\ proc[1].result.kind = "Ok"
    /\ \E t, s \in DOMAIN fslots :
          /\ 0 < t /\ t < s
          /\ fslots[t].key = <<>> /\ fslots[t].next = s
          /\ fslots[s].key = proc[1].key

(***************************************************************************)
(* The result get(key) computes on the file as it stands (no step of       *)
(* another process in between): the loop of get from the home slot.        *)
(***************************************************************************)
RECURSIVE get_walk(_, _, _)
get_walk(key, pos, fuel) ==
    LET item == read_item(fslots, pos)
    IN IF is_key(item, key) THEN Ok(item.value)
       ELSE IF get_next(item) # 0 /\ fuel > 0 THEN get_walk(key, get_next(item), fuel - 1)
       ELSE Err("NotFound")

get_now(key) == get_walk(key, hash(key, fheader.key_count), Cardinality(DOMAIN fslots))

AllReturned == \A p \in Procs : proc[p].pc = "idle"

(***************************************************************************)
(* C2: after concurrent inserts of pairwise distinct keys have all         *)
(* returned, every inserted key is retrievable by get with its own value.  *)
(***************************************************************************)
C2_DistinctInsertsAllRetrievable ==
    (AllReturned /\ distinctInserts /\ fheader.key_count > 0)
    => \A k \in Keys : abs[k].present => get_now(k) = Ok(abs[k].value)

InitExisting == Init /\ fexists = TRUE

SpecExisting == InitExisting /\ [][Next]_vars

(***************************************************************************)
(* C3 as stated: two writers that hold the same record of the same slot as *)
(* their expected snapshot never both report Committed.                    *)
(***************************************************************************)
C3_NeverBothCommitted ==
    \A q \in Procs : proc[q].ret = "Committed" => ~rival[q]

(***************************************************************************)
(* C3, amended: when a writer holding the same snapshot of the slot has    *)
(* reported Committed, the other reports Committed if the record it        *)
(* re-reads under the lock equals the snapshot (the first commit wrote the *)
(* bytes that were there, or a later write put them back), and Conflict if *)
(* it differs.                                                             *)
(***************************************************************************)
C3_SecondCommitsIffRecordUnchanged ==
    \A q \in Procs :
        (rival[q] /\ proc[q].pc = "written")
        => /\ proc[q].ret \in {"Committed", "Conflict"}
           /\ proc[q].ret = "Committed" <=> proc[q].confirm = proc[q].item

\* the first writer committed a change, the second reports Conflict
C3_Witness ==
    \E q \in Procs :
        /\ rival[q] /\ proc[q].pc = "written" /\ proc[q].ret = "Conflict"
        /\ proc[q].confirm # proc[q].item

(***************************************************************************)
(* C4: a write_item attempt reports Committed iff the record re-read under *)
(* the lock equals the expected record, and no step of an attempt that     *)
(* reports Conflict changes the file.                                      *)
(***************************************************************************)
C4_CommittedIffUnchangedElseNoWrite ==
    [][\A p \in Procs :
        (/\ proc[p].pc \in {"write_item", "write_item_confirm", "write_item_write"}
         /\ proc'[p] # proc[p])
        => /\ proc'[p].pc = "written"
              => /\ proc'[p].ret \in {"Committed", "Conflict"}
                 /\ proc'[p].ret = "Committed" <=> proc'[p].confirm = proc[p].item
           /\ proc'[p].ret # "Committed" => UNCHANGED fileVars]_vars

\* a write_item that ended in Conflict
C4_Witness ==
    \E p \in Procs :
        /\ proc[p].pc = "written" /\ proc[p].fn = "write_item"
        /\ proc[p].ret = "Conflict" /\ proc[p].confirm # proc[p].item

InCall(p) == proc[p].pc \notin {"idle", "done", "panic"}

(***************************************************************************)
(* C5: get never holds the lock, and every step of a get in progress can   *)
(* be taken whoever holds the lock.                                        *)
(***************************************************************************)
C5_GetNeverWaitsForLock ==
    \A p \in Procs :
        /\ lock = p => proc[p].op # "get"
        /\ (proc[p].op = "get" /\ InCall(p)) => ENABLED Step(p)

\* a get inside its loop while another process holds the lock
C5_Witness ==
    \E p, q \in Procs :
        /\ p # q /\ lock = q
        /\ proc[p].op = "get" /\ proc[p].pc = "loop" /\ proc[p].pos >= fheader.key_count

(***************************************************************************)
(* C6 as stated: a call during which a seek, read, write or lock step      *)
(* failed returns Err(IO); it neither returns Ok, nor panics, nor goes on  *)
(* with its loop.                                                          *)
(***************************************************************************)
C6_FailedCallReturnsIOError ==
    \A p \in Procs :
        proc[p].failed
        => /\ proc[p].pc \in {"written", "done"}
           /\ proc[p].pc = "done" => proc[p].result = Err("IO")

(***************************************************************************)
(* C7 as stated: a get that created the file returns NotFound, for every   *)
(* key, the empty string included.                                         *)
(***************************************************************************)
C7_GetOnNewFileNotFound ==
    \A p \in Procs :
        (proc[p].pc = "done" /\ proc[p].op = "get" /\ proc[p].created)
        => proc[p].result = Err("NotFound")

\* the same for the non-empty keys
C7_NonEmptyKeyOnNewFileNotFound ==
    \A p \in Procs :
        (proc[p].pc = "done" /\ proc[p].op = "get" /\ proc[p].created
            /\ proc[p].key # <<>>)
        => proc[p].result = Err("NotFound")

(***************************************************************************)
(* C8 as stated: in a sequential history, every step of a remove(k) of a   *)
(* key that is not stored leaves the lock alone and, once the file is      *)
(* initialised, every byte of the file unchanged; the call never enters    *)
(* the write protocol and returns NotFound.                                *)
(***************************************************************************)
RemoveMiss(p, k) ==
    (InCall(p) /\ proc[p].op = "remove" /\ proc[p].key = k /\ ~abs[k].present)
    => /\ lock' = lock
       /\ proc[p].pc \notin {"init_file_once", "init_header", "init_body"}
          => fileVars' = fileVars
       /\ proc'[p].pc \in {"init_header", "init_body", "read_header", "loop", "done"}
       /\ proc'[p].pc = "done" => proc'[p].result = Err("NotFound")

C8_RemoveOfAbsentKeyNotFound ==
    [][\A p \in Procs, k \in Keys : RemoveMiss(p, k)]_vars

\* the same for the non-empty keys
C8_NonEmptyKeyRemoveMiss ==
    [][\A p \in Procs, k \in NonEmptyKeys : RemoveMiss(p, k)]_vars

(***************************************************************************)
(* C9: once the file holds a header its key_count never changes, whatever  *)
(* step is taken (init_file_once on the existing file included), and every *)
(* call computes its bucket with the key_count of the file.                *)
(***************************************************************************)
C9_KeyCountFixed ==
    [][/\ fsize >= HEADER_SIZE
          => (fsize' >= HEADER_SIZE /\ fheader'.key_count = fheader.key_count)
       /\ \A p \in Procs :
            (proc[p].pc = "read_header" /\ proc'[p].pc = "loop")
            => /\ proc'[p].header.key_count = fheader.key_count
               /\ proc'[p].pos = hash(proc[p].key, fheader.key_count)]_vars

\* a file created with another bucket count than the calls pass, after calls
\* that went through init_file_once and a committed heap append
C9_Witness ==
    /\ fheader.key_count # DEFAULT_KEY_COUNT
    /\ fheader.heap_size > 0
    /\ \E p \in Procs : proc[p].pc = "loop" /\ proc[p].op = "insert"

(***************************************************************************)
(* C10 as stated: every header a call reads has key_count >= 1, and no     *)
(* call panics, also when the first calls on an absent file are concurrent.*)
(***************************************************************************)
C10_HeaderReadHasBuckets ==
    \A p \in Procs :
        /\ proc[p].pc # "panic"
        /\ proc[p].pc \notin {"idle", "init_file_once", "init_header", "init_body",
                              "read_header", "done"}
           => proc[p].header.key_count >= 1

Min(a, b) == IF a <= b THEN a ELSE b

\* the bytes of s before its first zero byte, at most max of them
CutAtZero(s, max) ==
    LET m == Min(Len(s), max)
        zeros == {i \in 1 .. m : s[i] = 0}
        len == IF zeros = {} THEN m ELSE (CHOOSE i \in zeros : \A j \in zeros : i <= j) - 1
    IN SubSeq(s, 1, len)

\* the field ends inside a character of s: the first byte left out is a
\* continuation byte
SplitsCharacter(s, max) ==
    /\ Len(s) > max
    /\ \A i \in 1 .. max : s[i] # 0
    /\ s[max + 1] \in 128 .. 191

ItemDecoded == pure.fn = "Item" /\ pure.done

(***************************************************************************)
(* C11 as stated: decode(encode(item)) has the next of item, the bytes of  *)
(* its key before the first zero byte cut to 256 bytes as key, and the     *)
(* bytes of its value before the first zero byte cut to 1024 bytes as      *)
(* value.                                                                  *)
(***************************************************************************)
C11_DecodeYieldsCutPrefix ==
    ItemDecoded
    => /\ pure.out_item.next = pure.item.next
       /\ pure.out_item.key = CutAtZero(pure.item.key, KEY_SIZE)
       /\ pure.out_item.value = CutAtZero(pure.item.value, VAL_SIZE)

(***************************************************************************)
(* C11 amended: the same, for a key and a value whose field does not end   *)
(* inside a multi-byte character; a field that does decodes to the cut     *)
(* prefix without the bytes of the split character, followed by U+FFFD.    *)
(* decode(encode(item)) = item when the key has <= 256 bytes, the value    *)
(* <= 1024 bytes and neither holds a zero byte.                            *)
(***************************************************************************)
C11_DecodeYieldsCutPrefixOfCharacters ==
    ItemDecoded
    => /\ pure.out_item.next = pure.item.next
       /\ ~SplitsCharacter(pure.item.key, KEY_SIZE)
          => pure.out_item.key = CutAtZero(pure.item.key, KEY_SIZE)
       /\ ~SplitsCharacter(pure.item.value, VAL_SIZE)
          => pure.out_item.value = CutAtZero(pure.item.value, VAL_SIZE)
       /\ SplitsCharacter(pure.item.key, KEY_SIZE)
          => pure.out_item.key = SubSeq(pure.item.key, 1, KEY_SIZE - 1) \o REPLACEMENT
       /\ SplitsCharacter(pure.item.value, VAL_SIZE)
          => pure.out_item.value = SubSeq(pure.item.value, 1, VAL_SIZE - 1) \o REPLACEMENT
       /\ (/\ Len(pure.item.key) <= KEY_SIZE /\ Len(pure.item.value) <= VAL_SIZE
           /\ \A i \in 1 .. Len(pure.item.key) : pure.item.key[i] # 0
           /\ \A i \in 1 .. Len(pure.item.value) : pure.item.value[i] # 0)
          => pure.out_item = pure.item

\* a key longer than its field was cut to 256 bytes and a value was cut at
\* its zero byte
C11_Witness ==
    /\ ItemDecoded
    /\ Len(pure.item.key) > KEY_SIZE /\ Len(pure.out_item.key) = KEY_SIZE
    /\ Len(pure.out_item.value) < Len(pure.item.value)
    /\ Len(pure.item.value) < VAL_SIZE

HashReturned == pure.fn = "hash" /\ pure.done

(***************************************************************************)
(* C12 as stated: hash(s, n) fails on no overflow and returns the bucket   *)
(* total mod n < n, total computed modulo 2^32, for every s and n >= 1.    *)
(***************************************************************************)
C12_HashInRangeWithoutOverflowFailure ==
    HashReturned
    => /\ ~pure.panic
       /\ pure.bucket < pure.n
       /\ pure.bucket = hash(pure.s, pure.n)

\* in a build without overflow checks: the bucket is in range, and it is the
\* one the wrapping sum gives for "foo", "bar" and "hello" with 256 buckets
C12_WrappingHashInRange ==
    (HashReturned /\ ~pure.checks)
    => /\ ~pure.panic
       /\ pure.bucket < pure.n
       /\ pure.n = 256
          => /\ pure.s = <<102, 111, 111>> => pure.bucket = 38
             /\ pure.s = <<98, 97, 114>> => pure.bucket = 179
             /\ pure.s = <<104, 101, 108, 108, 111>> => pure.bucket = 50

(***************************************************************************)
(* C13: decode(encode(h)) = h for every Header h, whatever its four        *)
(* fields hold.                                                            *)
(***************************************************************************)
C13_HeaderRoundTrip ==
    (pure.fn = "Header" /\ pure.done) => pure.out_h = pure.h

\* a header of four different fields, one in each byte lane, was decoded
C13_Witness ==
    /\ pure.fn = "Header" /\ pure.done
    /\ pure.h = [version |-> 1, key_count |-> 1284, val_size |-> 16777216,
                 heap_size |-> 2147483647]
    /\ pure.out_h.heap_size = 2147483647

(***************************************************************************)
(* C14 as stated: when the write protocol reported Conflict to insert or   *)
(* remove, the next record the call reads is the one at the home slot      *)
(* hash(key, key_count) of its key.                                        *)
(***************************************************************************)
C14_ConflictRestartsAtHomeSlot ==
    [][\A p \in Procs :
        (proc[p].pc = "written" /\ proc[p].ret = "Conflict" /\ proc'[p].pc = "loop")
        => proc'[p].pos = hash(proc[p].key, proc[p].header.key_count)]_vars

(***************************************************************************)
(* C15 as stated: whenever the file exists and no writer holds the lock,   *)
(* its size is 16 + (key_count + heap_size) * 1284 for the key_count and   *)
(* heap_size of its header, also after a heap append that ended in         *)
(* Conflict.                                                               *)
(***************************************************************************)
C15_FileSizeMatchesHeader ==
    (fexists /\ lock = NoProc)
    => fsize = HEADER_SIZE + (fheader.key_count + fheader.heap_size) * ITEM_SIZE

\* the same, but for one record more after a heap append that did not commit
C15_FileSizeWithinOneRecord ==
    (fexists /\ lock = NoProc)
    => \E orphans \in 0 .. 1 :
          fsize = HEADER_SIZE
                  + (fheader.key_count + fheader.heap_size + orphans) * ITEM_SIZE

\* the slot behind the last slot of the heap, as the header of the file has it
HeapEnd == fheader.key_count + fheader.heap_size

(***************************************************************************)
(* C16: a heap append whose re-check of the predecessor fails reports      *)
(* Conflict and leaves the header and every record as they were, the new   *)
(* record lying at new_pos = key_count + heap_size; every heap append      *)
(* writes its new record at that same slot; and so no slot beyond          *)
(* key_count + heap_size is ever written: at most one orphan, at slot      *)
(* key_count + heap_size.                                                  *)
(***************************************************************************)
C16_OneOrphanAtHeapEnd ==
    /\ [](\A s \in DOMAIN fslots : s <= HeapEnd)
    /\ [][\A p \in Procs :
            /\ (proc[p].pc = "write_heap_confirm" /\ proc'[p].pc = "written")
               => /\ proc'[p].ret = "Conflict"
                  /\ fileVars' = fileVars
                  /\ new_pos(p) = HeapEnd
                  /\ fslots[HeapEnd] = Stored(new_item(p))
                  /\ fslots[proc[p].pos] # proc[p].item
            /\ (proc[p].pc = "write_heap_new" /\ proc'[p].pc = "write_heap_confirm")
               => /\ new_pos(p) = HeapEnd
                  /\ fslots'[HeapEnd] = Stored(new_item(p))]_vars

\* an orphan lies at key_count + heap_size, no one holds the lock yet, and the
\* next heap append is about to write another record over it
C16_Witness ==
    \E p \in Procs :
        /\ proc[p].pc = "write_new_item_to_heap"
        /\ lock = NoProc
        /\ HeapEnd \in DOMAIN fslots
        /\ fslots[HeapEnd].key # proc[p].key

C18_NextWriteOnce ==
    [][\A s \in DOMAIN fslots \cup DOMAIN fslots' :
         LET old == read_item(fslots, s).next
             new == read_item(fslots', s).next
         IN /\ old # 0 => new = old
            /\ new # old
               => \E p \in Procs :
                     /\ lock = p
                     /\ proc[p].pc = "write_heap_prev"
                     /\ proc'[p].pc = "write_heap_inc"
                     /\ proc[p].pos = s
                     /\ new = new_pos(p)]_vars

\* the same on a file whose creation has completed: a remove has written a
\* tombstone that keeps the next of the record it replaced
C18_TombstoneKeepsNext ==
    \E s \in DOMAIN fslots, p \in Procs :
        /\ fslots[s].next # 0 /\ fslots[s].key = <<>>
        /\ proc[p].pc = "written" /\ proc[p].op = "remove"
        /\ proc[p].ret = "Committed" /\ proc[p].pos = s

(***************************************************************************)
(* C19 as stated: when write_item or write_new_item_to_heap has returned   *)
(* to insert or remove, with Committed, Conflict or an IO error, the       *)
(* process does not hold the lock.                                         *)
(***************************************************************************)
C19_EveryExitReleasesLock ==
    \A p \in Procs : proc[p].pc \in {"written", "done", "idle"} => lock # p

\* a call that has returned to its caller does not hold the lock
C19_ReturnedCallHoldsNoLock ==
    \A p \in Procs : proc[p].pc \in {"done", "idle", "panic"} => lock # p

(***************************************************************************)
(* C20: heap_size changes only in the last step of a heap append, taken    *)
(* by the holder of the lock after its re-check, and then by +1, and that  *)
(* step always changes it; the position the append has linked is           *)
(* key_count + heap_size of the header before the step, so committed       *)
(* appends get the positions key_count, key_count + 1, ... in commit       *)
(* order and never the same one twice.                                     *)
(***************************************************************************)
C20_HeapGrowsByCommittedAppends ==
    [][/\ fheader'.heap_size # fheader.heap_size
          => \E p \in Procs : lock = p /\ proc[p].pc = "write_heap_inc"
       /\ \A p \in Procs :
            (proc[p].pc = "write_heap_inc" /\ proc'[p].pc = "written")
            => /\ lock = p
               /\ proc'[p].ret = "Committed"
               /\ fheader'.heap_size = fheader.heap_size + 1
               /\ fheader'.key_count = fheader.key_count
               /\ new_pos(p) = HeapEnd]_vars

\* two appends of different keys have committed, at the positions 2 and 3
C20_Witness ==
    /\ fheader.key_count = 1 /\ fheader.heap_size = 3
    /\ fslots[1].next = 2 /\ fslots[2].next = 3
    /\ fslots[2].key # fslots[3].key
    /\ lock = NoProc

\* slot s of the heap holds a tombstone: a record of the heap has an empty key
\* and an empty value only after a remove has committed there (a heap append
\* and an update write the value of an insert, which is not empty here)
Tombstone(slots, header, s) ==
    /\ header.key_count <= s
    /\ s < header.key_count + header.heap_size
    /\ s \in DOMAIN slots
    /\ slots[s].key = <<>>
    /\ slots[s].value = <<>>

(***************************************************************************)
(* C21 as stated: a slot of the heap that holds a tombstone holds a        *)
(* tombstone after every step, at the end of its chain as well as in the   *)
(* middle.                                                                 *)
(***************************************************************************)
C21_TombstoneStays ==
    [][\A s \in DOMAIN fslots :
         Tombstone(fslots, fheader, s) => Tombstone(fslots', fheader', s)]_vars

\* the same for the tombstones in the middle of a chain and the steps of
\* calls on non-empty keys
C21_LinkedTombstoneStays ==
    [][\A s \in DOMAIN fslots :
         (/\ Tombstone(fslots, fheader, s)
          /\ fslots[s].next # 0
          /\ \A p \in Procs : InCall(p) => proc[p].key # <<>>)
         => Tombstone(fslots', fheader', s)]_vars

\* a tombstone in the middle of a chain, passed by the walk of an insert
C21_LinkedTombstonePassed ==
    \E s \in DOMAIN fslots, p \in Procs :
        /\ Tombstone(fslots, fheader, s) /\ fslots[s].next # 0
        /\ proc[p].op = "insert" /\ proc[p].key # <<>>
        /\ proc[p].pc = "loop" /\ proc[p].pos = fslots[s].next

RECURSIVE walk_reads(_, _)
\* the number of records a walk reads that starts at slot pos and finds its
\* key nowhere: read_item, then pos = next until next is 0
walk_reads(pos, fuel) ==
    LET item == read_item(fslots, pos)
    IN IF get_next(item) # 0 /\ fuel > 0
       THEN 1 + walk_reads(get_next(item), fuel - 1)
       ELSE 1

RECURSIVE chain(_, _)
chain(pos, fuel) ==
    LET item == read_item(fslots, pos)
    IN IF get_next(item) # 0 /\ fuel > 0
       THEN {pos} \cup chain(get_next(item), fuel - 1)
       ELSE {pos}

\* p is about to write the tombstone of remove(k) under the lock
CommitsRemove(p, k) ==
    /\ proc[p].pc = "write_item_write"
    /\ proc[p].op = "remove"
    /\ proc[p].key = k
    /\ proc'[p].ret = "Committed"

(***************************************************************************)
(* C23: with calls on non-empty keys only, no chain holds the same         *)
(* non-empty key in two slots; a record of k in the chain of k is the one  *)
(* get(k) finds (no older record shadows it), and once remove(k) has       *)
(* written its tombstone get(k) finds nothing.                             *)
(***************************************************************************)
C23_OneSlotPerKey ==
    /\ [](fheader.key_count >= 1
          => \A h \in 0 .. fheader.key_count - 1 :
               \A s, t \in chain(h, HeapEnd + 1) :
                 (/\ s # t
                  /\ read_item(fslots, s).key # <<>>
                  /\ \A p \in Procs : InCall(p) => proc[p].key # <<>>)
                 => read_item(fslots, s).key # read_item(fslots, t).key)
    /\ [](fheader.key_count >= 1
          => \A k \in NonEmptyKeys :
               \A s \in chain(hash(k, fheader.key_count), HeapEnd + 1) :
                 (/\ read_item(fslots, s).key = k
                  /\ \A p \in Procs : InCall(p) => proc[p].key # <<>>)
                 => get_now(k) = Ok(read_item(fslots, s).value))
    /\ [][\A p \in Procs, k \in NonEmptyKeys :
            (/\ CommitsRemove(p, k)
             /\ fheader.key_count >= 1
             /\ \A q \in Procs : InCall(q) => proc[q].key # <<>>)
            => get_walk(k, hash(k, fheader.key_count), HeapEnd + 1)' = Err("NotFound")]_vars

\* remove(k2) has written its tombstone in the middle of the chain
\* 0 -> 1 -> 2 while another call is walking the chain
C23_Witness ==
    /\ fheader.key_count = 1
    /\ chain(0, HeapEnd + 1) = {0, 1, 2}
    /\ \E p, q \in Procs :
         /\ p # q
         /\ proc[p].op = "remove" /\ proc[p].key # <<>>
         /\ proc[p].pc = "written" /\ proc[p].ret = "Committed"
         /\ Tombstone(fslots, fheader, proc[p].pos)
         /\ fslots[proc[p].pos].next # 0
         /\ InCall(q) /\ proc[q].key # <<>>

(***************************************************************************)
(* SpecChainFair: SpecChain under fair scheduling.  Every process that can *)
(* take a step of its call eventually takes one; a process blocked in      *)
(* flock can take none until the holder has unlocked.  Making a call is    *)
(* not forced, and the calls are finitely many (MaxFairCalls).              *)
(***************************************************************************)
NextChainFair == \E p \in Procs : DoCall(p, MaxFairCalls) \/ StepExisting(p)

SpecChainFair ==
    InitChain /\ [][NextChainFair]_vars /\ \A p \in Procs : WF_vars(StepExisting(p))

\* p has read the record `item` at slot `pos` and has not yet compared it
\* under the lock
AwaitsConfirm(p) ==
    proc[p].pc \in {"write_item", "write_item_confirm", "write_new_item_to_heap",
                    "write_heap_header", "write_heap_new", "write_heap_confirm"}

\* p has not yet acquired the lock
BeforeLock(p) == proc[p].pc \in {"write_item", "write_new_item_to_heap"}

\* the step is a write of q's that q reports as Committed
CommittedWrite(q) ==
    /\ lock = q
    /\ \/ proc[q].pc = "write_item_write" /\ proc'[q].ret = "Committed"
       \/ proc[q].pc = "write_heap_prev" /\ proc'[q].pc = "write_heap_inc"

(***************************************************************************)
(* C24 as stated, its first part: every step that makes the record of a    *)
(* slot differ from the record a caller has read there, and so makes the   *)
(* caller's comparison under the lock report Conflict, is a committed      *)
(* write of another writer, taken before the caller has the lock.          *)
(***************************************************************************)
C24_ConflictCausedByCommittedWrite ==
    [][\A p \in Procs :
         (/\ AwaitsConfirm(p)
          /\ read_item(fslots, proc[p].pos) = proc[p].item
          /\ read_item(fslots', proc[p].pos) # proc[p].item)
         => /\ BeforeLock(p)
            /\ \E q \in Procs \ {p} : CommittedWrite(q)]_vars

(***************************************************************************)
(* C24 on a file whose creation has completed (SpecChainFair): a Conflict  *)
(* is reported only when the record re-read under the lock                 *)
(* differs from the record read before; a step that makes the record of a  *)
(* slot differ from the record a caller holds of it is a committed write   *)
(* of another writer, taken before the caller has the lock; and under fair *)
(* scheduling every call returns.                                          *)
(***************************************************************************)
C24_ConflictsFromCommitsAndCallsReturn ==
    /\ [](\A p \in Procs : proc[p].ret = "Conflict" => proc[p].confirm # proc[p].item)
    /\ C24_ConflictCausedByCommittedWrite
    /\ \A p \in Procs : InCall(p) ~> proc[p].pc = "done"

\* p reports Conflict at the slot where q has written and reports Committed
C24_Witness ==
    \E p, q \in Procs :
        /\ p # q
        /\ proc[p].pc = "written" /\ proc[p].ret = "Conflict"
        /\ proc[q].pc = "written" /\ proc[q].ret = "Committed"
        /\ proc[q].pos = proc[p].pos
        /\ proc[p].confirm = read_item(fslots, proc[p].pos)

(***************************************************************************)
(* What the loop of get(key) finds from slot pos on the records `slots`.   *)
(***************************************************************************)
RECURSIVE find(_, _, _, _)
find(slots, key, pos, fuel) ==
    LET item == read_item(slots, pos)
    IN IF is_key(item, key) THEN Ok(item.value)
       ELSE IF get_next(item) # 0 /\ fuel > 0
       THEN find(slots, key, get_next(item), fuel - 1)
       ELSE Err("NotFound")

\* what get(key) finds from its home slot
lookup(slots, header, key) ==
    find(slots, key, hash(key, header.key_count), Cardinality(DOMAIN slots))

\* the step is a step of a call, and of no call with key k
StepOfOtherKey(k) ==
    \A q \in Procs : proc'[q] # proc[q] => (InCall(q) /\ proc[q].key # k)

\* p is in the loop of get(k) and about to read the slot pos
Reading(p, k) == proc[p].pc = "loop" /\ proc[p].op = "get" /\ proc[p].key = k

(***************************************************************************)
(* C25 as stated, its first part: what get(k) finds for a non-empty key k  *)
(* is changed by no step of a call on another key; so a record of k        *)
(* inserted before a get(k) started, and neither updated nor removed, is   *)
(* there for the get whatever the calls on other keys do.                  *)
(***************************************************************************)
C25_OtherKeysKeepLookup ==
    [][\A k \in NonEmptyKeys :
         (fheader.key_count >= 1 /\ StepOfOtherKey(k) /\ fileVars' # fileVars)
         => lookup(fslots', fheader', k) = lookup(fslots, fheader, k)]_vars

(***************************************************************************)
(* C25 on a file whose creation has completed: calls on other keys do not  *)
(* change what get(k) finds; the rest of the walk of a lock-free get(k),   *)
(* from the slot it is about to read, finds what a get(k) from the home    *)
(* slot finds, and that is what the get returns; and every non-zero next   *)
(* points to a record that has been written.                               *)
(***************************************************************************)
C25_ReaderFindsRecord ==
    /\ C25_OtherKeysKeepLookup
    /\ [](\A p \in Procs, k \in NonEmptyKeys :
            Reading(p, k)
            => find(fslots, k, proc[p].pos, Cardinality(DOMAIN fslots))
               = lookup(fslots, fheader, k))
    /\ [][\A p \in Procs, k \in NonEmptyKeys :
            (Reading(p, k) /\ proc'[p].pc = "done")
            => proc'[p].result = lookup(fslots, fheader, k)]_vars
    /\ [](\A s \in DOMAIN fslots : fslots[s].next # 0 => fslots[s].next \in DOMAIN fslots)

\* get(k2) returns the value of k2 from slot 1 while the other process, in
\* an insert of another key, has linked its new record behind slot 1 and
\* has not yet written the header
C25_Witness ==
    \E p, q \in Procs :
        /\ proc[p].pc = "done" /\ proc[p].op = "get" /\ proc[p].key = k2
        /\ proc[p].result = Ok(fslots[1].value)
        /\ fslots[1].key = k2 /\ fslots[1].next # 0
        /\ proc[q].pc = "write_heap_inc" /\ proc[q].key \notin {k2, <<>>}
====
